---- MODULE Spec2Model ----
(***************************************************************************)
(* Model of src/llm_fingpt.py: a Streamlit script that is run top to       *)
(* bottom once per user interaction.  The state is what survives a run     *)
(* (st.session_state, the st.cache_data store of extract_metrics) and what *)
(* the last run produced (the rendered page, the oracle calls it made, the *)
(* exception that ended it, its local variables).                          *)
(*                                                                         *)
(* Texts are strings, character by character.  A TLA+ string literal       *)
(* cannot hold the backtick, so BT stands for that one character; every    *)
(* other character is itself.                                              *)
(***************************************************************************)
EXTENDS Integers, Sequences, FiniteSets, TLC

\* The backtick character (U+0060).
BT == "'"
FENCE == BT \o BT \o BT
FENCE_JSON == FENCE \o "json"

-----------------------------------------------------------------------------
(* Python str operations used by extract_metrics.                          *)

IsSpace(c) == c \in {" ", "\n", "\t", "\r"}

RECURSIVE lstrip(_)
lstrip(s) ==
    IF Len(s) > 0 /\ IsSpace(SubSeq(s, 1, 1)) THEN lstrip(SubSeq(s, 2, Len(s))) ELSE s

RECURSIVE rstrip(_)
rstrip(s) ==
    IF Len(s) > 0 /\ IsSpace(SubSeq(s, Len(s), Len(s)))
    THEN rstrip(SubSeq(s, 1, Len(s) - 1)) ELSE s

\* str.strip()
strip(s) == rstrip(lstrip(s))

\* str.startswith(p)
startswith(s, p) == Len(s) >= Len(p) /\ SubSeq(s, 1, Len(p)) = p

\* str.find(sep) from position i (1-based); 0 when sep does not occur.
RECURSIVE find(_, _, _)
find(s, sep, i) ==
    IF i + Len(sep) - 1 > Len(s) THEN 0
    ELSE IF SubSeq(s, i, i + Len(sep) - 1) = sep THEN i
    ELSE find(s, sep, i + 1)

\* str.split(sep): the list of the pieces between the occurrences of sep.
RECURSIVE split(_, _)
split(s, sep) ==
    LET i == find(s, sep, 1) IN
    IF i = 0 THEN <<s>>
    ELSE <<SubSeq(s, 1, i - 1)>> \o split(SubSeq(s, i + Len(sep), Len(s)), sep)

-----------------------------------------------------------------------------
(* JSON values as Python objects.  Every value has the same fields, so any *)
(* two values can be compared.                                             *)

JNull == [t |-> "null", n |-> 0, s |-> "", items |-> <<>>, pairs |-> <<>>]
JBool(b) == [t |-> "bool", n |-> IF b THEN 1 ELSE 0, s |-> "", items |-> <<>>, pairs |-> <<>>]
JNum(n) == [t |-> "num", n |-> n, s |-> "", items |-> <<>>, pairs |-> <<>>]
JStr(s) == [t |-> "str", n |-> 0, s |-> s, items |-> <<>>, pairs |-> <<>>]
JList(items) == [t |-> "list", n |-> 0, s |-> "", items |-> items, pairs |-> <<>>]
\* pairs: the members <<key, value>> in source order, keys being str values.
JDict(pairs) == [t |-> "dict", n |-> 0, s |-> "", items |-> <<>>, pairs |-> pairs]

Digits == {"0", "1", "2", "3", "4", "5", "6", "7", "8", "9"}

DigitVal(c) ==
    CASE c = "0" -> 0 [] c = "1" -> 1 [] c = "2" -> 2 [] c = "3" -> 3 [] c = "4" -> 4
      [] c = "5" -> 5 [] c = "6" -> 6 [] c = "7" -> 7 [] c = "8" -> 8 [] c = "9" -> 9

CharAt(s, i) == IF 1 <= i /\ i <= Len(s) THEN SubSeq(s, i, i) ELSE ""

\* The result of a parsing step: the value and the position after it.
Parsed(v, i) == [ok |-> TRUE, val |-> v, pos |-> i]
ParseError(i) == [ok |-> FALSE, val |-> JNull, pos |-> i]

RECURSIVE SkipWs(_, _)
SkipWs(s, i) == IF IsSpace(CharAt(s, i)) THEN SkipWs(s, i + 1) ELSE i

\* The digits from position i on: their value and the position after them.
RECURSIVE ParseDigits(_, _, _)
ParseDigits(s, i, acc) ==
    IF CharAt(s, i) \in Digits THEN ParseDigits(s, i + 1, 10 * acc + DigitVal(CharAt(s, i)))
    ELSE Parsed(JNum(acc), i)

\* An integer literal: -? (0 | [1-9][0-9]*).  The texts of this model hold no
\* fraction or exponent.
ParseNumber(s, i) ==
    LET neg == CharAt(s, i) = "-"
        j == IF neg THEN i + 1 ELSE i
    IN  IF CharAt(s, j) \notin Digits THEN ParseError(j)
        ELSE LET r == IF CharAt(s, j) = "0" THEN Parsed(JNum(0), j + 1)
                      ELSE ParseDigits(s, j, 0)
             IN  Parsed(JNum(IF neg THEN 0 - r.val.n ELSE r.val.n), r.pos)

\* A string literal opening at position i.  The texts of this model hold no
\* backslash; a control character ends the decoding (strict mode).
ParseString(s, i) ==
    LET j == find(s, "\"", i + 1) IN
    IF j = 0 THEN ParseError(i)
    ELSE LET body == SubSeq(s, i + 1, j - 1) IN
         IF find(body, "\n", 1) # 0 \/ find(body, "\t", 1) # 0 \/ find(body, "\r", 1) # 0
         THEN ParseError(i)
         ELSE Parsed(JStr(body), j + 1)

ParseLiteral(s, i, word, v) ==
    IF i + Len(word) - 1 <= Len(s) /\ SubSeq(s, i, i + Len(word) - 1) = word
    THEN Parsed(v, i + Len(word)) ELSE ParseError(i)

RECURSIVE ParseValue(_, _)
RECURSIVE ParseElements(_, _, _)
RECURSIVE ParseMembers(_, _, _)

\* A value starting at position i (no leading whitespace).
ParseValue(s, i) ==
    LET c == CharAt(s, i) IN
    CASE c = "{" ->
           LET j == SkipWs(s, i + 1) IN
           IF CharAt(s, j) = "}" THEN Parsed(JDict(<<>>), j + 1)
           ELSE ParseMembers(s, j, <<>>)
      [] c = "[" ->
           LET j == SkipWs(s, i + 1) IN
           IF CharAt(s, j) = "]" THEN Parsed(JList(<<>>), j + 1)
           ELSE ParseElements(s, j, <<>>)
      [] c = "\"" -> ParseString(s, i)
      [] c = "-" \/ c \in Digits -> ParseNumber(s, i)
      [] c = "n" -> ParseLiteral(s, i, "null", JNull)
      [] c = "t" -> ParseLiteral(s, i, "true", JBool(TRUE))
      [] c = "f" -> ParseLiteral(s, i, "false", JBool(FALSE))
      [] OTHER -> ParseError(i)

\* The elements of an array from position i on, acc being those already read.
ParseElements(s, i, acc) ==
    LET r == ParseValue(s, i) IN
    IF ~r.ok THEN r
    ELSE LET j == SkipWs(s, r.pos)
             got == Append(acc, r.val)
         IN  CASE CharAt(s, j) = "," -> ParseElements(s, SkipWs(s, j + 1), got)
               [] CharAt(s, j) = "]" -> Parsed(JList(got), j + 1)
               [] OTHER -> ParseError(j)

\* The members of an object from position i on, acc being those already read.
ParseMembers(s, i, acc) ==
    IF CharAt(s, i) # "\"" THEN ParseError(i)
    ELSE LET k == ParseString(s, i) IN
         IF ~k.ok THEN k
         ELSE LET c == SkipWs(s, k.pos) IN
              IF CharAt(s, c) # ":" THEN ParseError(c)
              ELSE LET r == ParseValue(s, SkipWs(s, c + 1)) IN
                   IF ~r.ok THEN r
                   ELSE LET j == SkipWs(s, r.pos)
                            got == Append(acc, <<k.val, r.val>>)
                        IN  CASE CharAt(s, j) = "," -> ParseMembers(s, SkipWs(s, j + 1), got)
                              [] CharAt(s, j) = "}" -> Parsed(JDict(got), j + 1)
                              [] OTHER -> ParseError(j)

\* The document must end after its one value (whitespace aside).
WholeText(text, r) ==
    IF ~r.ok THEN r
    ELSE IF SkipWs(text, r.pos) # Len(text) + 1 THEN ParseError(r.pos)
    ELSE r

\* json.loads(text): ok = FALSE is json.JSONDecodeError.
json_loads(text) == WholeText(text, ParseValue(text, SkipWs(text, 1)))

-----------------------------------------------------------------------------
(* Python dict operations.  A dict is a function from keys to values; its  *)
(* keys are values too, since dict.update can take a key of any hashable   *)
(* type from a list of pairs.                                               *)

\* The result of a step that may raise: exc = "" when it does not.
Done(d) == [exc |-> "", d |-> d]
Raised(e, d) == [exc |-> e, d |-> d]

\* d[k] = v
SetItem(d, k, v) == (k :> v) @@ d

Hashable(v) == v.t \notin {"list", "dict"}

\* The keys of a decoded object in dict order (first insertion).
RECURSIVE DictKeys(_, _, _)
DictKeys(pairs, i, acc) ==
    IF i > Len(pairs) THEN acc
    ELSE DictKeys(pairs, i + 1,
                  IF \E j \in 1..Len(acc) : acc[j] = pairs[i][1] THEN acc
                  ELSE Append(acc, pairs[i][1]))

\* json.loads gives a repeated member name its last value.
RECURSIVE UpdatePairs(_, _, _)
UpdatePairs(d, pairs, i) ==
    IF i > Len(pairs) THEN d
    ELSE UpdatePairs(SetItem(d, pairs[i][1], pairs[i][2]), pairs, i + 1)

\* dict.update reads each element of an iterable as a (key, value) pair: the
\* element is itself iterated and must yield exactly two items.
PairOf(e) ==
    CASE e.t = "list" -> [exc |-> IF Len(e.items) # 2 THEN "ValueError"
                                  ELSE IF ~Hashable(e.items[1]) THEN "TypeError" ELSE "",
                          kv |-> e.items]
      [] e.t = "str" -> [exc |-> IF Len(e.s) # 2 THEN "ValueError" ELSE "",
                         kv |-> <<JStr(CharAt(e.s, 1)), JStr(CharAt(e.s, 2))>>]
      [] e.t = "dict" -> LET ks == DictKeys(e.pairs, 1, <<>>) IN
                         [exc |-> IF Len(ks) # 2 THEN "ValueError" ELSE "", kv |-> ks]
      [] OTHER -> [exc |-> "TypeError", kv |-> <<>>]

RECURSIVE UpdateSeq(_, _, _)
UpdateSeq(d, items, i) ==
    IF i > Len(items) THEN Done(d)
    ELSE LET p == PairOf(items[i]) IN
         IF p.exc # "" THEN Raised(p.exc, d)
         ELSE UpdateSeq(SetItem(d, p.kv[1], p.kv[2]), items, i + 1)

\* A variant of dict_update that keeps the value a key already has.
dict_setdefault(d, other) ==
    IF other.t = "dict" THEN Done(d @@ UpdatePairs(d, other.pairs, 1)) ELSE Done(d)

\* dict.update(other), other being whatever json.loads returned: a mapping is
\* merged; any other iterable is read as pairs (the characters of a str are
\* strings of length 1); None, a bool or a number is not iterable.

dict_update(d, other) ==
    CASE other.t = "dict" -> Done(UpdatePairs(d, other.pairs, 1))
      [] other.t = "list" -> UpdateSeq(d, other.items, 1)
      [] other.t = "str" -> IF Len(other.s) = 0 THEN Done(d) ELSE Raised("ValueError", d)
      [] OTHER -> Raised("TypeError", d)

-----------------------------------------------------------------------------
(* extract_metrics, lines 145-180.                                         *)

K(name) == JStr(name)

METRIC_KEYS == {K("revenue"), K("profit"), K("expenses"), K("market_cap"), K("currency")}

\* {"revenue": 0, "profit": 0, "expenses": 0, "market_cap": 0, "currency": "₹"}
DEFAULTS ==
    (K("revenue") :> JNum(0)) @@ (K("profit") :> JNum(0)) @@ (K("expenses") :> JNum(0))
        @@ (K("market_cap") :> JNum(0)) @@ (K("currency") :> JStr("₹"))

\* An oracle reply: ok = FALSE is client.chat.completions.create raising
\* (connection error, timeout, rate limit, status error).
Reply(content) == [ok |-> TRUE, content |-> content]
OracleFailure == [ok |-> FALSE, content |-> ""]

\* Lines 168-171.
unfence(raw_output) ==
    IF startswith(raw_output, FENCE_JSON)
    THEN strip(split(split(raw_output, FENCE_JSON)[2], FENCE)[1])
    ELSE IF startswith(raw_output, FENCE)
    THEN strip(split(raw_output, FENCE)[2])
    ELSE raw_output

\* The exceptions the except clause of line 178 names.
CAUGHT == {"JSONDecodeError", "KeyError"}

\* What a call of the function body does: it returns ret (exc = ""), having
\* rendered the elements of shown, or it raises exc.
Returned(ret, shown) == [exc |-> "", ret |-> ret, shown |-> shown]
Raises(e) == [exc |-> e, ret |-> <<>>, shown |-> <<>>]

\* Line 177: return defaults, unless line 176 raised.
return_defaults(defaults) ==
    IF defaults.exc # "" THEN Raises(defaults.exc) ELSE Returned(defaults.d, <<>>)

\* Lines 175-177, parsed being what json.loads did at line 173.
update_defaults(parsed) ==
    IF ~parsed.ok THEN Raises("JSONDecodeError")
    ELSE return_defaults(dict_update(DEFAULTS, parsed.val))

\* The try block, lines 156-177.
extract_try(reply) ==
    IF ~reply.ok THEN Raises("APIError")
    ELSE update_defaults(json_loads(unfence(strip(reply.content))))

\* Lines 178-180: the handler, r being what the try block did.
except_clause(r) ==
    IF r.exc \in CAUGHT THEN Returned(DEFAULTS, <<"error: Extraction failed. Using defaults.">>)
    ELSE r

\* The function body: the try block under the handler of lines 178-180.
extract_metrics_body(reply) == except_clause(extract_try(reply))

-----------------------------------------------------------------------------
(* The texts the oracle may answer the extraction prompt with.             *)

\* The longest run of whitespace put before and after a text.
MaxPad == 1

\* JSON objects.
ObjectTexts ==
    { "{\"revenue\": 500, \"profit\": 100, \"expenses\": 50, \"market_cap\": 9000, \"currency\": \"₹\"}",
      "{\"revenue\": 500, \"currency\": \"$\"}",
      "{\"revenue\": 500, \"note\": \"estimated\"}",
      "{\"profit\": -20, \"expenses\": null}",
      "{\"revenue\": \"500 Cr\"}",
      "{\"revenue\": 1, \"revenue\": 2}",
      "{}",
      "{\"currency\": \"" \o FENCE \o "\"}" }

\* JSON that is not an object.
NonObjectTexts ==
    { "[1, 2]", "[]", "[[\"revenue\", 500]]", "[\"ab\"]", "42", "\"abc\"", "\"\"", "null", "true" }

\* Text that is not JSON.
GarbageTexts ==
    { "", "Sorry, I cannot extract that.", "{\"revenue\": 500", "Here is the JSON: {}" }

Payloads == ObjectTexts \cup NonObjectTexts \cup GarbageTexts

RECURSIVE Pad(_, _)
Pad(c, n) == IF n = 0 THEN "" ELSE c \o Pad(c, n - 1)

Bare(j) == j
FencedJson(j) == FENCE_JSON \o "\n" \o j \o "\n" \o FENCE
FencedPlain(j) == FENCE \o "\n" \o j \o "\n" \o FENCE

Wrappings(j) == {Bare(j), FencedJson(j), FencedPlain(j)}

Padded(text) == {Pad(" ", a) \o text \o Pad("\n", b) : a \in 0..MaxPad, b \in 0..MaxPad}

RawOutputs == UNION {Padded(w) : w \in UNION {Wrappings(j) : j \in Payloads}}

OracleReplies == {OracleFailure} \cup {Reply(t) : t \in RawOutputs}

-----------------------------------------------------------------------------
VARIABLES
    company_name,   \* the text input of line 39
    file_upload,    \* the file uploader of line 43
    session_state,  \* st.session_state: a dict with at most the key "report_text"
    cache,          \* the st.cache_data store of extract_metrics, by argument
    page,           \* the elements the last script run rendered, in order
    calls,          \* the oracle calls the last script run made, in order
    exception,      \* the exception that ended the last script run, "" if none
    clicked,        \* the interaction that caused the last script run
    report_text,    \* the local report_text of the last run (line 53)
    metrics,        \* the local metrics of the last run (line 182)
    oracle_reply,   \* the oracle's reply to the extraction call of the last run
    outcome         \* what the body of extract_metrics did in the last run

vars == <<company_name, file_upload, session_state, cache, page, calls, exception,
          clicked, report_text, metrics, oracle_reply, outcome>>

app_vars == <<company_name, file_upload, session_state, cache, page, calls, exception,
              clicked, report_text, metrics>>

\* An uploaded file: its extension (line 76) and what its bytes are.  A run
\* that finds the read position of the upload at its end (line 75, an upload
\* object kept from an earlier run) reads no bytes: it takes the branch of an
\* unreadable PDF or analyses an XBRL text, as other files of this set do.
NoFile == [ext |-> "", content |-> ""]
Files ==
    { [ext |-> "pdf", content |-> "text"],       \* pages with text
      [ext |-> "pdf", content |-> "scanned"],    \* pages without text
      [ext |-> "pdf", content |-> "corrupt"],    \* PdfReader raises
      [ext |-> "xbrl", content |-> "utf-8"],
      [ext |-> "xbrl", content |-> "binary"] }   \* decode('utf-8') raises

\* A local variable that was never assigned.
Unbound == "<unbound>"
\* The body of extract_metrics did not run.
NoReply == [ok |-> FALSE, content |-> "<no call>"]
NotCalled == [exc |-> "<not called>", ret |-> <<>>, shown |-> <<>>]

\* The first script run of a session: nothing entered, nothing clicked.
AppInit ==
    /\ company_name = ""
    /\ file_upload = NoFile
    /\ session_state = <<>>
    /\ cache = <<>>
    /\ page = <<"button: Analyze Financials">>
    /\ calls = <<>>
    /\ exception = ""
    /\ clicked = "load"
    /\ report_text = Unbound
    /\ metrics = <<>>

Init ==
    /\ AppInit
    /\ oracle_reply = NoReply
    /\ outcome = NotCalled

-----------------------------------------------------------------------------
(* The body of extract_metrics applied to one oracle reply.                *)

ExtractInit ==
    /\ AppInit
    /\ oracle_reply \in OracleReplies
    /\ outcome = NotCalled

ExtractCall ==
    /\ outcome = NotCalled
    /\ outcome' = extract_metrics_body(oracle_reply)
    /\ UNCHANGED <<app_vars, oracle_reply>>

ExtractSpec == ExtractInit /\ [][ExtractCall]_vars

-----------------------------------------------------------------------------
(* One script run.  ctx holds what the run has done so far.                *)

Show(ctx, element) == [ctx EXCEPT !.page = Append(@, element)]

\* client.chat.completions.create(...) with the given prompt.
Prompt(template, subject) == [template |-> template, subject |-> subject]
LogCall(ctx, prompt, reply) ==
    [ctx EXCEPT !.calls = Append(@, [prompt |-> prompt, reply |-> reply])]

\* An exception nothing catches ends the script run.
Abort(ctx, e) == [ctx EXCEPT !.exception = e]

\* A variant that keeps a report already stored.
StoreReport_keep(ctx, content, message) ==
    [ctx EXCEPT !.report_text = content,
                !.session_state = @ @@ ("report_text" :> content),
                !.page = @ \o <<message, "markdown: " \o content>>]

\* Lines 68-71, 103-106, 128-131.
StoreReport(ctx, content, message) ==
    [ctx EXCEPT !.report_text = content,
                !.session_state = ("report_text" :> content) @@ @,
                !.page = @ \o <<message, "markdown: " \o content>>]

Uppers == "ABCDEFGHIJKLMNOPQRSTUVWXYZ"
Lowers == "abcdefghijklmnopqrstuvwxyz"

\* str.lower()
RECURSIVE Lower(_)
Lower(s) ==
    IF Len(s) = 0 THEN ""
    ELSE LET c == CharAt(s, 1)
             i == find(Uppers, c, 1)
         IN  (IF i # 0 THEN CharAt(Lowers, i) ELSE c) \o Lower(SubSeq(s, 2, Len(s)))

Contains(query, keyword) == find(Lower(query), keyword, 1) # 0

\* The keyword classification of section 4.1 of the specification: the first
\* rule that matches, in this order, names the category.
classify(query) ==
    CASE Contains(query, "business model") -> "business_model"
      [] Contains(query, "management") /\ Contains(query, "commentary") -> "management_commentary"
      [] Contains(query, "red flag") -> "red_flags"
      [] Contains(query, "product") \/ Contains(query, "service") -> "key_products"
      [] Contains(query, "evolution") -> "evolution"
      [] Contains(query, "stock") \/ Contains(query, "performance") -> "stock_performance"
      [] Contains(query, "growth") \/ Contains(query, "outlook") -> "growth_outlook"
      [] Contains(query, "guidance") -> "guidance_vs_delivery"
      [] OTHER -> "fallback"

\* A variant that picks the template by the keywords of the name.
company_prompt_classified(company) == Prompt(classify(company), company)

\* Lines 56-60: the prompt of a company-name analysis.
company_prompt(company) == Prompt("company_report", company)

\* Lines 54-71.
company_analysis(ctx, company, reply) ==
    LET called == LogCall(ctx, company_prompt(company), reply) IN
    IF ~reply.ok THEN Abort(called, "APIError")
    ELSE StoreReport(called, reply.content, "success: Analysis Completed Successfully!")

\* Lines 78-108.
pdf_analysis(ctx, file, reply) ==
    CASE file.content = "corrupt" -> Show(ctx, "error: Error processing PDF")
      [] file.content = "scanned" ->
           Show(ctx, "error: No text could be extracted from the PDF.")
      [] OTHER ->
           LET called == LogCall(ctx, Prompt("pdf_report", file.content), reply) IN
           IF ~reply.ok THEN Show(called, "error: Error processing PDF")
           ELSE StoreReport(called, reply.content, "success: PDF Analysis Completed Successfully!")

\* Lines 110-133.
xbrl_analysis(ctx, file, reply) ==
    LET warned == Show(ctx, "warning: XBRL support is basic.") IN
    IF file.content = "binary" THEN Show(warned, "error: Error processing XBRL")
    ELSE LET called == LogCall(warned, Prompt("xbrl_report", file.content), reply) IN
         IF ~reply.ok THEN Show(called, "error: Error processing XBRL")
         ELSE StoreReport(called, reply.content, "success: XBRL Analysis Completed Successfully!")

\* Lines 53-136: a variant that also analyses the file when a name is given.
analysis_both(ctx, company, file, reply) ==
    LET bound == [ctx EXCEPT !.report_text = ""]
        named == IF company # "" THEN company_analysis(bound, company, reply) ELSE bound
    IN  IF named.exception # "" \/ file = NoFile THEN named
        ELSE IF file.ext = "pdf" THEN pdf_analysis(named, file, reply)
        ELSE xbrl_analysis(named, file, reply)

\* Lines 53-136.
analysis(ctx, company, file, reply) ==
    LET bound == [ctx EXCEPT !.report_text = ""] IN
    IF company # "" THEN company_analysis(bound, company, reply)
    ELSE IF file.ext = "pdf" THEN pdf_analysis(bound, file, reply)
    ELSE IF file.ext = "xbrl" THEN xbrl_analysis(bound, file, reply)
    ELSE Show(bound, "error: Unsupported file type.")

\* Lines 48-136.
analysis_section(ctx, analyze_button, company, file, reply) ==
    IF ~analyze_button THEN ctx
    ELSE IF company = "" /\ file = NoFile
    THEN Show(ctx, "warning: Please enter a company name or upload a financial file.")
    ELSE analysis(ctx, company, file, reply)

-----------------------------------------------------------------------------
(* The tools section, lines 139-251.                                       *)

ExtractPrompt(text) == Prompt("extract_json", text)

\* The replies the oracle gives the extraction prompt in a session.
ExtractReplies ==
    { OracleFailure,
      Reply("{\"revenue\": 500, \"profit\": 100, \"expenses\": 50, \"market_cap\": 9000, \"currency\": \"₹\"}"),
      Reply("Sorry, I cannot extract that."),
      Reply("[1, 2]") }

\* extract_metrics_body on each of them, computed once.
BodyOn == [reply \in ExtractReplies |-> extract_metrics_body(reply)]

\* The body of extract_metrics runs: one oracle call, then lines 165-180.
run_body(ctx, text, reply) ==
    [LogCall(ctx, ExtractPrompt(text), reply) EXCEPT !.oracle_reply = reply,
                                                     !.outcome = BodyOn[reply]]

\* The store of st.cache_data takes what the body returned and rendered.
store(ctx, text) ==
    [ctx EXCEPT !.cache = (text :> [ret |-> ctx.outcome.ret, shown |-> ctx.outcome.shown]) @@ @]

\* The caller gets the returned value; the rendered elements are on the page.
deliver(ctx, entry) == [ctx EXCEPT !.page = @ \o entry.shown, !.metrics = entry.ret]

\* The body has run: what it raised ends the script run, what it returned is
\* stored and delivered.
finish(ctx, text) ==
    IF ctx.outcome.exc # "" THEN Abort(ctx, ctx.outcome.exc)
    ELSE deliver(store(ctx, text), ctx.outcome)

\* A variant of finish that stores only a decoded result.
finish_store_decoded(ctx, text) ==
    IF ctx.outcome.exc # "" THEN Abort(ctx, ctx.outcome.exc)
    ELSE deliver(IF ctx.outcome.shown = <<>> THEN store(ctx, text) ELSE ctx, ctx.outcome)

\* A variant of the decorated function that stores only a decoded result.
extract_metrics_store_decoded(ctx, text, reply) ==
    IF text \in DOMAIN ctx.cache THEN deliver(ctx, ctx.cache[text])
    ELSE finish_store_decoded(run_body(ctx, text, reply), text)

\* Lines 144-180: extract_metrics under @st.cache_data.  A stored call is
\* answered from the store, the elements it rendered replayed; a call that
\* returns is stored; a call that raises is not.
extract_metrics(ctx, text, reply) ==
    IF text \in DOMAIN ctx.cache THEN deliver(ctx, ctx.cache[text])
    ELSE finish(run_body(ctx, text, reply), text)

DigitChar(d) ==
    CASE d = 0 -> "0" [] d = 1 -> "1" [] d = 2 -> "2" [] d = 3 -> "3" [] d = 4 -> "4"
      [] d = 5 -> "5" [] d = 6 -> "6" [] d = 7 -> "7" [] d = 8 -> "8" [] d = 9 -> "9"

RECURSIVE NatToStr(_)
NatToStr(n) == IF n < 10 THEN DigitChar(n) ELSE NatToStr(n \div 10) \o DigitChar(n % 10)

\* f"{x}": a list or a dict is shown by a placeholder, no result depending on it.
PyFormat(v) ==
    CASE v.t = "num" -> IF v.n < 0 THEN "-" \o NatToStr(0 - v.n) ELSE NatToStr(v.n)
      [] v.t = "str" -> v.s
      [] v.t = "null" -> "None"
      [] v.t = "bool" -> IF v.n = 1 THEN "True" ELSE "False"
      [] v.t = "list" -> "[...]"
      [] OTHER -> "{...}"

\* x > 0 on a Python object.
PyPositive(v) ==
    IF v.t \in {"num", "bool"} THEN [exc |-> "", b |-> v.n > 0]
    ELSE [exc |-> "TypeError", b |-> FALSE]

\* The dtype pandas gives the column built from four Python objects (line 187):
\* None among numbers becomes NaN in a float column.
ColumnDtype(values) ==
    LET ts == {values[i].t : i \in 1..Len(values)} IN
    IF ts = {"num"} THEN "int64"
    ELSE IF ts = {"num", "null"} THEN "float64"
    ELSE IF ts = {"bool"} THEN "bool"
    ELSE "object"

\* Line 191, one cell.
FormatCell(dtype, v, currency) ==
    IF dtype = "float64"
    THEN [exc |-> "",
          s |-> IF v.t = "num" /\ v.n > 0
                THEN PyFormat(v) \o ".0 " \o PyFormat(currency) \o " Cr" ELSE "N/A"]
    ELSE LET p == PyPositive(v) IN
         [exc |-> p.exc,
          s |-> IF p.b THEN PyFormat(v) \o " " \o PyFormat(currency) \o " Cr" ELSE "N/A"]

RECURSIVE Join(_, _)
Join(parts, by) ==
    IF Len(parts) = 1 THEN parts[1] ELSE parts[1] \o by \o Join(Tail(parts), by)

\* str.replace(old, new), old taken literally.
str_replace(s, old, new) == Join(split(s, old), new)

\* float(s) for the cells of line 194: ok = FALSE is ValueError.
float_of(s) ==
    LET r == ParseNumber(s, 1) IN
    IF r.ok /\ (r.pos = Len(s) + 1 \/ SubSeq(s, r.pos, Len(s)) = ".0")
    THEN [ok |-> TRUE, n |-> r.val.n] ELSE [ok |-> FALSE, n |-> 0]

\* Lines 186-214.
visualize(ctx) ==
    LET m == ctx.metrics
        currency == m[K("currency")]
        values == <<m[K("revenue")], m[K("profit")], m[K("expenses")], m[K("market_cap")]>>
        dtype == ColumnDtype(values)
        cells == [i \in 1..4 |-> FormatCell(dtype, values[i], currency)]
        floats == [i \in 1..4 |->
                     float_of(str_replace(cells[i].s, " " \o PyFormat(currency) \o " Cr", ""))]
        total == floats[1].n + floats[2].n + floats[3].n + floats[4].n
        positive_values == {i \in 1..4 : floats[i].n > 0}
        charts == <<"markdown: Bar Chart",
                    IF total > 0 THEN "bar_chart"
                    ELSE "warning: No numerical data for charts.",
                    "markdown: Line Chart",
                    IF total > 0 THEN "line_chart"
                    ELSE "warning: No numerical data for charts.",
                    "markdown: Pie Chart",
                    IF Cardinality(positive_values) > 1 THEN "pie_chart"
                    ELSE "warning: Insufficient data for pie chart.">>
    IN  IF \E i \in 1..4 : cells[i].exc # "" THEN Abort(ctx, "TypeError")
        ELSE IF \E i \in 1..4 : ~floats[i].ok
        THEN Abort(Show(ctx, "markdown: Bar Chart"), "ValueError")
        ELSE [ctx EXCEPT !.page = @ \o charts]

\* Lines 222-235.
auto_summarize(ctx, reply) ==
    LET called == LogCall(ctx, Prompt("summarize", ctx.session_state["report_text"]), reply) IN
    IF ~reply.ok THEN Abort(called, "APIError")
    ELSE [called EXCEPT !.page = @ \o <<"markdown: Summary", "markdown: " \o reply.content>>]

\* Lines 240-251.
show_table(ctx) ==
    LET m == ctx.metrics IN
    IF \E k \in {K("revenue"), K("profit"), K("expenses"), K("market_cap")} :
           PyPositive(m[k]).exc # ""
    THEN Abort(ctx, "TypeError")
    ELSE [ctx EXCEPT !.page = @ \o <<"markdown: Financial Table", "table">>]

\* Line 185-214: the button, and its block when it was clicked.
visualize_button(ctx, button) ==
    IF ctx.exception # "" THEN ctx
    ELSE IF button = "visualize" THEN visualize(Show(ctx, "button: Visualize Data"))
    ELSE Show(ctx, "button: Visualize Data")

\* Lines 221-235.
summarize_button(ctx, button, reply) ==
    IF ctx.exception # "" THEN ctx
    ELSE IF button = "summarize" THEN auto_summarize(Show(ctx, "button: Auto Summarize"), reply)
    ELSE Show(ctx, "button: Auto Summarize")

\* Lines 239-251.
table_button(ctx, button) ==
    IF ctx.exception # "" THEN ctx
    ELSE IF button = "table" THEN show_table(Show(ctx, "button: Show Table"))
    ELSE Show(ctx, "button: Show Table")

\* Lines 140-182.
extraction(ctx, reply) ==
    extract_metrics(Show(ctx, "subheader: Smart Tools for Better Understanding"),
                    ctx.session_state["report_text"], reply)

\* Lines 139-251.  button names the button that was clicked; a statement is
\* reached only if no exception has ended the run.
tools_section(ctx, button, extract_reply, summary_reply) ==
    IF ctx.exception # "" \/ "report_text" \notin DOMAIN ctx.session_state THEN ctx
    ELSE table_button(
             summarize_button(
                 visualize_button(extraction(ctx, extract_reply), button),
                 button, summary_reply),
             button)

\* A script run starts with nothing rendered, called, raised or bound.
start(ctx) ==
    [ctx EXCEPT !.page = <<"button: Analyze Financials">>,
                !.calls = <<>>,
                !.exception = "",
                !.report_text = Unbound,
                !.metrics = <<>>,
                !.oracle_reply = NoReply,
                !.outcome = NotCalled]

\* The whole script, lines 32-251, after a startup that passed lines 12-27.
script(ctx, button, company, file, analysis_reply, extract_reply, summary_reply) ==
    tools_section(
        analysis_section(start(ctx), button = "analyze", company, file, analysis_reply),
        button, extract_reply, summary_reply)

-----------------------------------------------------------------------------
(* The user's interactions.  Each one causes one script run with the       *)
(* widget values of that moment; the oracle answers as it will.            *)

CompanyNames == {"", "Reliance", "red flags and growth outlook of hdfc bank"}

AnalysisReplies == {OracleFailure, Reply("Report A"), Reply("Report B")}

SummaryReplies == {OracleFailure, Reply("- five bullet points")}

Context ==
    [session_state |-> session_state, cache |-> cache, page |-> page, calls |-> calls,
     exception |-> exception, report_text |-> report_text, metrics |-> metrics,
     oracle_reply |-> oracle_reply, outcome |-> outcome]

\* The state a script run leaves.
Ends(ran, button, company, file) ==
    /\ company_name' = company
    /\ file_upload' = file
    /\ clicked' = button
    /\ session_state' = ran.session_state
    /\ cache' = ran.cache
    /\ page' = ran.page
    /\ calls' = ran.calls
    /\ exception' = ran.exception
    /\ report_text' = ran.report_text
    /\ metrics' = ran.metrics
    /\ oracle_reply' = ran.oracle_reply
    /\ outcome' = ran.outcome

\* Only a click on Analyze reaches an analysis call (line 48), only one on
\* Auto Summarize the summary call (line 221): no reply is drawn for the others.
Run(button, company, file) ==
    \E a \in IF button = "analyze" THEN AnalysisReplies ELSE {NoReply},
       e \in ExtractReplies,
       s \in IF button = "summarize" THEN SummaryReplies ELSE {NoReply} :
        Ends(script(Context, button, company, file, a, e, s), button, company, file)

Rendered(element) == \E i \in 1..Len(page) : page[i] = element

\* Line 39: the text input is changed.
EnterCompany ==
    \E c \in CompanyNames : c # company_name /\ Run("input", c, file_upload)

\* Line 43: a file is uploaded or removed.
UploadFile ==
    \E f \in Files \cup {NoFile} : f # file_upload /\ Run("input", company_name, f)

\* Line 45.
ClickAnalyze ==
    /\ Rendered("button: Analyze Financials")
    /\ Run("analyze", company_name, file_upload)

\* Line 185.
ClickVisualize ==
    /\ Rendered("button: Visualize Data")
    /\ Run("visualize", company_name, file_upload)

\* Line 221.
ClickSummarize ==
    /\ Rendered("button: Auto Summarize")
    /\ Run("summarize", company_name, file_upload)

\* Line 239.
ClickTable ==
    /\ Rendered("button: Show Table")
    /\ Run("table", company_name, file_upload)

Next ==
    \/ EnterCompany
    \/ UploadFile
    \/ ClickAnalyze
    \/ ClickVisualize
    \/ ClickSummarize
    \/ ClickTable

Spec == Init /\ [][Next]_vars

-----------------------------------------------------------------------------
(* Properties.                                                             *)

\* What the body of extract_metrics decodes: the reply, stripped and unfenced.
Decoded == json_loads(unfence(strip(oracle_reply.content)))

BodyRan == outcome # NotCalled

\* The members of a decoded object: its keys, and the value of each (the last
\* one given).
MemberKeys(object) == {object.pairs[i][1] : i \in 1..Len(object.pairs)}
MemberValue(object, k) ==
    LET last == CHOOSE i \in 1..Len(object.pairs) :
                    /\ object.pairs[i][1] = k
                    /\ \A j \in (i + 1)..Len(object.pairs) : object.pairs[j][1] # k
    IN  object.pairs[last][2]

\* C1: whatever text the oracle returns, the body of extract_metrics returns
\* a record holding the five keys and raises nothing; for a text that is not
\* JSON, or JSON that is not an object, the record is the default one.
C1_AlwaysARecord ==
    (BodyRan /\ oracle_reply.ok) =>
        /\ outcome.exc = ""
        /\ METRIC_KEYS \subseteq DOMAIN outcome.ret
        /\ (~Decoded.ok \/ Decoded.val.t # "dict") => outcome.ret = DEFAULTS

\* C2: when the oracle call inside extract_metrics fails, the body catches the
\* failure and returns the default record.
C2_OracleFailureGivesDefaults ==
    (BodyRan /\ ~oracle_reply.ok) => (outcome.exc = "" /\ outcome.ret = DEFAULTS)

\* C3 as stated: for a text that decodes to an object, the returned record is
\* the default record with those of the five fields the object holds
\* overwritten, and nothing else.
C3_FiveFieldsOnly ==
    (BodyRan /\ oracle_reply.ok /\ Decoded.ok /\ Decoded.val.t = "dict") =>
        /\ outcome.exc = ""
        /\ outcome.ret = [k \in METRIC_KEYS |->
                            IF k \in MemberKeys(Decoded.val) THEN MemberValue(Decoded.val, k)
                            ELSE DEFAULTS[k]]

\* C3 amended: for a text that decodes to an object, the returned record is
\* the default record updated with every member of the object: each member
\* has the object's value, whether or not it is one of the five fields, and
\* each of the five fields the object lacks has its default.  An object with
\* exactly the five fields is returned as it is.
C3_MergeAllMembers ==
    (BodyRan /\ oracle_reply.ok /\ Decoded.ok /\ Decoded.val.t = "dict") =>
        /\ outcome.exc = ""
        /\ DOMAIN outcome.ret = METRIC_KEYS \cup MemberKeys(Decoded.val)
        /\ \A k \in MemberKeys(Decoded.val) : outcome.ret[k] = MemberValue(Decoded.val, k)
        /\ \A k \in METRIC_KEYS \ MemberKeys(Decoded.val) : outcome.ret[k] = DEFAULTS[k]

\* An object that overwrites a default, lacks some of the five fields and has
\* a member of its own has been merged.
C3_Witness ==
    /\ BodyRan /\ oracle_reply.ok /\ Decoded.ok /\ Decoded.val.t = "dict"
    /\ outcome.ret[K("revenue")] = JNum(500)
    /\ K("profit") \notin MemberKeys(Decoded.val)
    /\ MemberKeys(Decoded.val) \ METRIC_KEYS # {}

\* C4: for every JSON object, the body returns the same record whether the
\* oracle returns the object bare, in a fence tagged json or in an untagged
\* fence, with whitespace around it.
C4_FenceTransparent ==
    \A j \in ObjectTexts :
        (BodyRan /\ oracle_reply.ok
            /\ oracle_reply.content \in UNION {Padded(w) : w \in Wrappings(j)}) =>
        outcome = extract_metrics_body(Reply(j))

AnalysisTemplates == {"company_report", "pdf_report", "xbrl_report"}

ToolsShown == Rendered("subheader: Smart Tools for Better Understanding")

\* The analysis call of the last run returned a report.
AnalysisReturned ==
    \E i \in 1..Len(calls) :
        calls[i].prompt.template \in AnalysisTemplates /\ calls[i].reply.ok

\* C5 as stated: after a click on Analyze, whatever its outcome, the report of
\* the tools section is the one of that click.
C5_AnyOutcomeOverwrites ==
    (clicked = "analyze" /\ ToolsShown) => session_state["report_text"] = report_text

\* C5 amended: a click on Analyze whose analysis call returns a report
\* replaces the stored report text by that report; any other script run (an
\* analysis that is rejected or fails, any other interaction) leaves the
\* stored report text as it was; the metrics of the tools section are those
\* extracted for the stored report text.
C5_LastReturnedReportWins ==
    [][/\ IF clicked' = "analyze" /\ AnalysisReturned'
          THEN session_state' = ("report_text" :> calls'[1].reply.content)
          ELSE session_state' = session_state
       /\ metrics' # <<>> => metrics' = cache'[session_state'["report_text"]].ret]_vars

\* A second report has replaced a first one.
C5_Witness ==
    /\ clicked = "analyze"
    /\ AnalysisReturned
    /\ session_state["report_text"] = "Report B"
    /\ "Report A" \in DOMAIN cache
    /\ metrics # <<>>

\* C6: an oracle call of an analysis or of Auto Summarize that fails is caught
\* where it is made: an error is rendered and no exception ends the run.
C6_FailuresCaught ==
    \A i \in 1..Len(calls) :
        (calls[i].prompt.template \in AnalysisTemplates \cup {"summarize"}
            /\ ~calls[i].reply.ok) =>
        /\ exception = ""
        /\ \E e \in 1..Len(page) : startswith(page[e], "error: ")

\* C7 as stated: a click on Analyze, Visualize or Auto Summarize makes one or
\* two oracle calls.
C7_OneOrTwoCalls ==
    clicked \in {"analyze", "visualize", "summarize"} => Len(calls) \in {1, 2}

\* C7 amended: a script run makes at most two oracle calls, one after the
\* other; it may make none.
C7_AtMostTwoCalls == Len(calls) <= 2

\* A click on Analyze made two calls: the analysis, then the extraction.
C7_Witness ==
    /\ clicked = "analyze"
    /\ Len(calls) = 2
    /\ calls[1].prompt.template \in AnalysisTemplates
    /\ calls[2].prompt.template = "extract_json"

ExtractionCalledFor(log, text) ==
    \E i \in 1..Len(log) : log[i].prompt = ExtractPrompt(text)

\* C8: once a call of extract_metrics for a report text has returned, be it
\* the default record of a decoding failure, no later run calls the oracle for
\* that text, and every run gets the same record while the text stays.
C8_Memoized ==
    [][/\ \A text \in DOMAIN cache :
            /\ text \in DOMAIN cache'
            /\ cache'[text] = cache[text]
            /\ ~ExtractionCalledFor(calls', text)
       /\ outcome'.exc = "" => session_state'["report_text"] \in DOMAIN cache'
       /\ (metrics # <<>> /\ metrics' # <<>> /\ session_state' = session_state)
            => metrics' = metrics]_vars

\* The default record of a decoding failure is served again without a call.
C8_Witness ==
    /\ metrics = DEFAULTS
    /\ Rendered("error: Extraction failed. Using defaults.")
    /\ calls = <<>>
    /\ clicked \in {"input", "table"}

Value(k) == metrics[K(k)]

\* C10: a click on Visualize ends without an exception, and when no metric is
\* positive the two warnings stand in place of the charts.
C10_VisualizeCompletes ==
    clicked = "visualize" =>
        /\ exception = ""
        /\ (\A k \in {"revenue", "profit", "expenses", "market_cap"} :
                Value(k).t = "num" /\ Value(k).n <= 0) =>
               /\ Rendered("warning: No numerical data for charts.")
               /\ Rendered("warning: Insufficient data for pie chart.")

====
